---- MODULE Spec2Model ----
(***************************************************************************)
(* Model of pacificclimate/netcdf-tutorial:                                *)
(*   src/src/measure_timeseries_throughput.py  (driver, GriddedFile,       *)
(*                                               extraction strategies)    *)
(*   src/src/utils.py                           (mem_limiter)               *)
(*                                                                         *)
(* Floating point numbers are modelled as exact rationals extended with    *)
(* the two special values inf and nan.  Every integer of the model is far  *)
(* below 2^24, so it is exactly representable in float32 and float64.      *)
(***************************************************************************)
EXTENDS Integers, Sequences, FiniteSets, TLC

(* ------------------------------ bounds --------------------------------- *)
MaxFiles == 3
MaxZ == 2
MaxLon == 3
MaxLat == 3
MaxSeconds == 2
MaxListing == 3
MaxNumFiles == 4
MaxUsage == 3

(* ------------------------- names and constants ------------------------- *)
CandidateVars == {"pr", "tasmin", "tasmax"}
RecognizedDims == {"lat", "lon", "time"}
DimNames == {"lat", "lon", "time", "bnds"}
VarNames == {"pr", "tasmax", "tas"}
DTypes == {"i2", "f4", "f8"}
Paths == {"f1", "f2"}
EntryNames == {"a.nc", "b.nc", "c.nc", "d.nc"}
Garbage == {0, 9999}
NoFile ==
  [dims |-> {}, vars |-> {}, dtype |-> "none", xlen |-> 0, ylen |-> 0, zlen |-> 0]
NoDst == [h |-> 0, file |-> NoFile]
NoArray == [dtype |-> "none", data |-> << >>]

itemsize(dtype) ==
  CASE dtype = "i2" -> 2
    [] dtype = "f4" -> 4
    [] dtype = "f8" -> 8
    [] OTHER -> 0

(* --------------------------- float arithmetic -------------------------- *)
RECURSIVE GCD(_, _)
GCD(m, n) == IF n = 0 THEN m ELSE GCD(n, m % n)

Fin(n, d) ==
  LET g == GCD(n, d)
  IN  IF n = 0 THEN [k |-> "fin", n |-> 0, d |-> 1]
      ELSE [k |-> "fin", n |-> n \div g, d |-> d \div g]
Inf == [k |-> "inf", n |-> 1, d |-> 0]
NaN == [k |-> "nan", n |-> 0, d |-> 0]

FAdd(p, q) ==
  IF p.k = "nan" \/ q.k = "nan" THEN NaN
  ELSE IF p.k = "inf" \/ q.k = "inf" THEN Inf
  ELSE Fin(p.n * q.d + q.n * p.d, p.d * q.d)

FMulInt(p, m) ==
  IF p.k = "nan" THEN NaN
  ELSE IF p.k = "inf" THEN (IF m = 0 THEN NaN ELSE Inf)
  ELSE Fin(p.n * m, p.d)

FDivInt(p, m) ==
  IF p.k = "fin" THEN Fin(p.n, p.d * m) ELSE p

(* bool(x) of a float: 0.0 is false, everything else (inf and nan too) true *)
Truthy(p) == ~(p.k = "fin" /\ p.n = 0)

(* ----------------------------- the files ------------------------------- *)
(* A file: its dimensions (with sizes), its variables and their stored     *)
(* element type.  Every variable has shape (time, lat, lon).               *)
FileContents ==
  [dims : SUBSET DimNames, vars : SUBSET VarNames, dtype : DTypes,
   xlen : 1..MaxLon, ylen : 1..MaxLat, zlen : 0..MaxZ]

(* The value stored in variable v at (t, yy, xx): distinct per cell.       *)
VarCode(v) ==
  CASE v = "pr" -> 1
    [] v = "tasmin" -> 2
    [] v = "tasmax" -> 3
    [] OTHER -> 4
GridValue(v, t, yy, xx) == VarCode(v) * 1000 + t * 100 + yy * 10 + xx

(* ------------------------------- state --------------------------------- *)
VARIABLES
  pc,          \* position of the single control thread
  err,         \* the exception that ended the run ("" while none)
  listing,     \* os.listdir(args.directory), as returned
  num_files,   \* args.num_files
  choices,     \* the pool of remaining directory entries
  nsel,        \* iterations of the selection loop completed
  filenames,   \* the resolved file list
  fs,          \* the files on disk: path -> contents
  iface,       \* args.interface
  method,      \* args.method
  optimize,    \* python -O: assert statements are compiled away
  i,           \* enumerate index of the current file
  moving_avg,  \* the running average
  throughput,  \* the rate measure returned for the current file
  rates,       \* every rate measure returned so far, in order
  out,         \* lines printed so far
  handles,     \* every dataset handle opened so far: "open" or "closed"
  dst,         \* self.dst of the current GriddedFile
  x,           \* midpoint index along lon
  y,           \* midpoint index along lat
  var,         \* the variable chosen for the extraction
  a,           \* the extracted array
  k,           \* loop index of extract_iterative
  reads,       \* reads issued on dst[var] by the current measure call
  seconds,     \* t.tn - t.t0
  usage,       \* get_mem_usage().data as the OS reports it now
  limit,       \* the ceiling given to mem_limiter
  mpc,         \* position inside mem_limiter's with statement
  bodyRuns,    \* how many times the scoped body has been entered
  usage0,      \* the usage the entry check read
  peak,        \* the highest usage seen while the body ran
  merr         \* the MemoryError mem_limiter raised ("" while none)

selVars == <<listing, num_files, choices, nsel>>
cfgVars == <<fs, iface, method, optimize>>
drvVars == <<i, moving_avg, throughput, rates, out>>
msVars == <<handles, dst, x, y, var, a, k, reads, seconds>>
memVars == <<usage, limit, mpc, bodyRuns, usage0, peak, merr>>
vars == <<pc, err, filenames, selVars, cfgVars, drvVars, msVars, memVars>>

(* ----------------------- gridded-file accessors ------------------------ *)
(* h5py.File.keys(): every dataset of the file, dimension scales included  *)
H5Keys(d) == d.file.dims \cup d.file.vars

H5variables(d) == H5Keys(d)
H5dimensions(d) == H5Keys(d) \cap {"lat", "lon", "time"}
NCvariables(d) == d.file.vars
NCdimensions(d) == d.file.dims

variables(d) == IF iface = "hdf5" THEN H5variables(d) ELSE NCvariables(d)
dimensions(d) == IF iface = "hdf5" THEN H5dimensions(d) ELSE NCdimensions(d)

(* dst['lon'] / dst.dimensions['lon']: a KeyError when the name is absent  *)
HasKey(d, name) ==
  IF iface = "hdf5" THEN name \in H5Keys(d) ELSE name \in d.file.dims

(* ceil(n / 2) - 1 *)
Midpoint(n) == ((n + 1) \div 2) - 1

(* --------------------------- extraction -------------------------------- *)
Read(v, t, yy, xx) == [var |-> v, t |-> t, y |-> yy, x |-> xx]
WholeAxis == -1

(* dst[var][:, y, x]: one read, an array of the stored element type *)
extract_direct(d, v, xx, yy) ==
  [dtype |-> d.file.dtype,
   data |-> [t \in 1..d.file.zlen |-> GridValue(v, t - 1, yy, xx)]]

(* a[i] = value: the value is converted to the buffer's element type,     *)
(* float64, which represents every stored value of the model exactly      *)
ToFloat64(value) == value

(* faulty variant: every value lands in a[0] *)
StoreAtFirst(arr, idx, value) ==
  [arr EXCEPT !.data = [arr.data EXCEPT ![1] = ToFloat64(value)]]

(* line 128: a[i] = value *)
StoreAt(arr, idx, value) ==
  [arr EXCEPT !.data = [arr.data EXCEPT ![idx + 1] = ToFloat64(value)]]

(* np.prod(array.shape) * array.dtype.itemsize *)
nbytes(arr) == Len(arr.data) * itemsize(arr.dtype)

(* bytes_ / seconds, for seconds > 0 *)
bytes_per_second(arr, secs) == Fin(nbytes(arr), secs)

(* bytes_ / seconds when seconds = 0 and numpy only warns: inf, or nan for 0/0 *)
DivideByZero(arr) == IF nbytes(arr) = 0 THEN NaN ELSE Inf

(* ------------------------------ printing ------------------------------- *)
Floor(p) == p.n \div p.d
(* '%.1f' % value, in tenths, rounded half to even *)
Tenths(p) ==
  LET q == (10 * p.n) \div p.d
      r == (10 * p.n) % p.d
  IN  IF 2 * r > p.d \/ (2 * r = p.d /\ q % 2 = 1) THEN q + 1 ELSE q

Suffixes == <<"K", "M", "G", "T", "P", "E", "Z", "Y">>
RECURSIVE Scaled(_, _)
Scaled(p, s) ==
  IF s = Len(Suffixes) \/ p.n < 1024 * p.d
  THEN [num |-> Tenths(p), tenths |-> TRUE, unit |-> Suffixes[s]]
  ELSE Scaled(Fin(p.n, p.d * 1024), s + 1)

(* naturalsize(value, binary=True, gnu=True) *)
naturalsize(p) ==
  IF p.k # "fin" THEN [num |-> 0, tenths |-> TRUE, unit |-> p.k]
  ELSE IF p.n < 1024 * p.d THEN [num |-> Floor(p), tenths |-> FALSE, unit |-> "B"]
  ELSE Scaled(Fin(p.n, p.d * 1024), 1)

FileLine(filename, p) == [kind |-> "file", name |-> filename, size |-> naturalsize(p)]
AverageLine(p) == [kind |-> "Average", name |-> "", size |-> naturalsize(p)]

(* ------------------------- GriddedFile.measure ------------------------- *)
(* faulty variant: the exception is swallowed and the loop goes on *)
CrashContinues(e) == pc' = "loop" /\ err' = e

(* line 170: nothing catches an exception, the run ends with it *)
Crash(e) == pc' = "crashed" /\ err' = e

(* faulty variant: close leaves the handle open *)
closeForgotten(hs, d) == hs

(* line 36-37: self.dst.close() *)
close(hs, d) == [hs EXCEPT ![d.h] = "closed"]

(* variant with guaranteed release: the handle is closed on the way out    *)
UnwindReleasing(hs, d) == close(hs, d)

(* line 55-72: an exception raised between open and close leaves measure   *)
(* through no handler and no finally clause: nothing is released           *)
Unwind(hs, d) == hs

Fail(e) == Crash(e) /\ handles' = Unwind(handles, dst)
Proceed(next) == pc' = next /\ err' = err /\ handles' = handles

CurrentFile == filenames[i + 1]

(* line 168-169: the next file of the list and a fresh GriddedFile for it, *)
(* or the end of the loop                                                  *)
Loop ==
  /\ pc = "loop"
  /\ IF i < Len(filenames)
     THEN /\ pc' = "open"
          /\ dst' = NoDst /\ x' = 0 /\ y' = 0 /\ var' = "" /\ a' = NoArray
          /\ k' = 0 /\ reads' = << >> /\ seconds' = 0
     ELSE /\ pc' = "average"
          /\ UNCHANGED <<dst, x, y, var, a, k, reads, seconds>>
  /\ UNCHANGED <<err, filenames, selVars, cfgVars, drvVars, handles, memVars>>

(* line 56: self.open() *)
Open ==
  /\ pc = "open"
  /\ handles' = Append(handles, "open")
  /\ dst' = [h |-> Len(handles) + 1, file |-> fs[CurrentFile]]
  /\ pc' = "assert"
  /\ UNCHANGED <<err, filenames, selVars, cfgVars, drvVars, x, y, var, a, k,
                 reads, seconds, memVars>>

(* line 57-58: the two assert statements *)
AssertDims ==
  /\ pc = "assert"
  /\ IF optimize \/ ("lat" \in dimensions(dst) /\ "lon" \in dimensions(dst))
     THEN Proceed("midpoint")
     ELSE Fail("AssertionError")
  /\ UNCHANGED <<filenames, selVars, cfgVars, drvVars, dst, x, y, var, a, k, reads,
                 seconds, memVars>>

(* line 60-61: the midpoint indices; self.xlen and self.ylen look the      *)
(* dimension up by name                                                    *)
Midpoints ==
  /\ pc = "midpoint"
  /\ IF HasKey(dst, "lon") /\ HasKey(dst, "lat")
     THEN /\ x' = Midpoint(dst.file.xlen)
          /\ y' = Midpoint(dst.file.ylen)
          /\ Proceed("choose")
     ELSE Fail("KeyError") /\ UNCHANGED <<x, y>>
  /\ UNCHANGED <<filenames, selVars, cfgVars, drvVars, dst, var, a, k,
                 reads, seconds, memVars>>

(* faulty variant: every variable of the file is a candidate *)
VarChoicesAll(d) == variables(d)

(* line 62: set(self.variables).intersection({'pr', 'tasmin', 'tasmax'}) *)
VarChoices(d) == variables(d) \cap CandidateVars

(* line 62-63: random.choice over the candidate variables the file has *)
ChooseVar ==
  /\ pc = "choose"
  /\ \/ /\ VarChoices(dst) = {}
        /\ Fail("IndexError") /\ var' = var
     \/ /\ \E v \in VarChoices(dst) : var' = v
        /\ Proceed("extract")
  /\ UNCHANGED <<filenames, selVars, cfgVars, drvVars, dst, x, y, a, k,
                 reads, seconds, memVars>>

(* line 66-67: extract_direct; a variable of a file without a time         *)
(* dimension has no time axis, and the three-index read fails              *)
ExtractDirect ==
  /\ pc = "extract" /\ method = "direct"
  /\ reads' = Append(reads, Read(var, WholeAxis, y, x))
  /\ IF "time" \in dst.file.dims
     THEN a' = extract_direct(dst, var, x, y) /\ Proceed("exit")
     ELSE Fail("IndexError") /\ a' = a
  /\ UNCHANGED <<filenames, selVars, cfgVars, drvVars, dst, x, y, var, k,
                 seconds, memVars>>

(* line 126: np.empty(shape=(zlen)): a float64 buffer of unspecified contents *)
EmptyBuffers(zlen) == {[dtype |-> "f8", data |-> g] : g \in [1..zlen -> Garbage]}

(* line 68-69, 126: self.zlen is looked up, then the buffer is allocated *)
ExtractIterative ==
  /\ pc = "extract" /\ method = "iterative"
  /\ IF HasKey(dst, "time")
     THEN /\ \E buf \in EmptyBuffers(dst.file.zlen) : a' = buf
          /\ k' = 0 /\ Proceed("iter")
     ELSE Fail("KeyError") /\ UNCHANGED <<a, k>>
  /\ UNCHANGED <<filenames, selVars, cfgVars, drvVars, dst, x, y, var,
                 reads, seconds, memVars>>

(* line 127-129: one single-element read per timestep, then return a *)
IterStep ==
  /\ pc = "iter"
  /\ IF k < dst.file.zlen
     THEN /\ reads' = Append(reads, Read(var, k, y, x))
          /\ a' = StoreAt(a, k, GridValue(var, k, y, x))
          /\ k' = k + 1 /\ pc' = "iter"
     ELSE pc' = "exit" /\ UNCHANGED <<reads, a, k>>
  /\ UNCHANGED <<err, filenames, selVars, cfgVars, drvVars, handles, dst, x, y,
                 var, seconds, memVars>>

(* line 15-20, 65: the stopwatch stops; tn - t0 is whatever the clock gives *)
MeterExit ==
  /\ pc = "exit"
  /\ \E s \in 0..MaxSeconds : seconds' = s
  /\ pc' = "close"
  /\ UNCHANGED <<err, filenames, selVars, cfgVars, drvVars, handles, dst, x, y,
                 var, a, k, reads, memVars>>

(* line 71: self.close() *)
Close ==
  /\ pc = "close"
  /\ handles' = close(handles, dst)
  /\ pc' = "rate"
  /\ UNCHANGED <<err, filenames, selVars, cfgVars, drvVars, dst, x, y, var, a, k,
                 reads, seconds, memVars>>

(* line 72, 22-26: t.bytes_per_second(a).  With zero elapsed time the      *)
(* division either raises or, under numpy's default error state, yields    *)
(* inf (nan for zero bytes).                                               *)
Rate ==
  /\ pc = "rate"
  /\ \/ /\ seconds > 0
        /\ throughput' = bytes_per_second(a, seconds)
        /\ pc' = "report" /\ err' = err
     \/ /\ seconds = 0
        /\ throughput' = DivideByZero(a)
        /\ pc' = "report" /\ err' = err
     \/ /\ seconds = 0
        /\ Crash("ZeroDivisionError") /\ throughput' = throughput
  /\ UNCHANGED <<filenames, selVars, cfgVars, i, moving_avg, rates, out, msVars,
                 memVars>>

(* ------------------------------- driver -------------------------------- *)
(* line 174-177 *)
UpdateAverage(avg, idx, sample) ==
  IF Truthy(avg)
  THEN FAdd(FDivInt(FMulInt(avg, idx), idx + 1), FDivInt(sample, idx + 1))
  ELSE sample

(* line 171-177: print the file's line and update the running average *)
Report ==
  /\ pc = "report"
  /\ out' = Append(out, FileLine(CurrentFile, throughput))
  /\ moving_avg' = UpdateAverage(moving_avg, i, throughput)
  /\ rates' = Append(rates, throughput)
  /\ i' = i + 1
  /\ pc' = "loop"
  /\ UNCHANGED <<err, filenames, selVars, cfgVars, throughput, msVars, memVars>>

(* line 179 *)
Average ==
  /\ pc = "average"
  /\ out' = Append(out, AverageLine(moving_avg))
  /\ pc' = "done"
  /\ UNCHANGED <<err, filenames, selVars, cfgVars, i, moving_avg, throughput, rates,
                 msVars, memVars>>

NextDriver ==
  \/ Loop \/ Open \/ AssertDims \/ Midpoints \/ ChooseVar
  \/ ExtractDirect \/ ExtractIterative \/ IterStep \/ MeterExit
  \/ Close \/ Rate \/ Report \/ Average

(* --------------------------- file selection ---------------------------- *)
Directory == "dir"

(* os.path.join(args.directory, f) *)
Join(d, f) == <<d, f>>

(* faulty variant: the chosen entry stays in the pool *)
RemoveNothing(s, f) == s

(* line 160, list.remove(f): the first occurrence of f is dropped *)
RECURSIVE Remove(_, _)
Remove(s, f) ==
  IF s = << >> THEN << >>
  ELSE IF Head(s) = f THEN Tail(s)
  ELSE <<Head(s)>> \o Remove(Tail(s), f)

Range(s) == {s[j] : j \in 1..Len(s)}

(* line 155-156 *)
ListDir ==
  /\ pc = "listdir"
  /\ filenames' = << >>
  /\ choices' = listing
  /\ nsel' = 0
  /\ pc' = "select"
  /\ UNCHANGED <<err, listing, num_files, cfgVars, drvVars, msVars, memVars>>

(* line 157-160: one iteration of the selection loop, or its end *)
SelectStep ==
  /\ pc = "select"
  /\ IF nsel < num_files
     THEN IF choices = << >>
          THEN Crash("IndexError") /\ UNCHANGED <<filenames, choices, nsel>>
          ELSE /\ \E f \in Range(choices) :
                    /\ filenames' = Append(filenames, Join(Directory, f))
                    /\ choices' = Remove(choices, f)
               /\ nsel' = nsel + 1
               /\ pc' = "select" /\ err' = err
     ELSE pc' = "selected" /\ UNCHANGED <<err, filenames, choices, nsel>>
  /\ UNCHANGED <<listing, num_files, cfgVars, drvVars, msVars, memVars>>

NextSel == ListDir \/ SelectStep

(* ----------------------------- mem_limiter ----------------------------- *)
(* faulty variant: usage equal to the ceiling counts as over it *)
OverLimitOrAt(used, ceiling) == used >= ceiling

(* utils.py line 48 and 51: get_mem_usage().data > bytes_ *)
OverLimit(used, ceiling) == used > ceiling

(* utils.py line 48-50: the entry check, then the body is entered *)
MemEnter ==
  /\ mpc = "enter"
  /\ usage0' = usage
  /\ IF OverLimit(usage, limit)
     THEN mpc' = "failed_entry" /\ merr' = "MemoryError" /\ UNCHANGED <<bodyRuns, peak>>
     ELSE mpc' = "body" /\ bodyRuns' = bodyRuns + 1 /\ peak' = usage /\ merr' = merr
  /\ UNCHANGED <<usage, limit>>
  /\ UNCHANGED <<pc, err, filenames, selVars, cfgVars, drvVars, msVars>>

(* the scoped body allocates or frees *)
MemBodyStep ==
  /\ mpc = "body"
  /\ \E u \in 0..MaxUsage : usage' = u /\ peak' = IF u > peak THEN u ELSE peak
  /\ UNCHANGED <<limit, mpc, bodyRuns, usage0, merr>>
  /\ UNCHANGED <<pc, err, filenames, selVars, cfgVars, drvVars, msVars>>

(* the scoped body raises: the exception is thrown into the generator at   *)
(* the yield and leaves it, the exit check is skipped                      *)
MemBodyRaise ==
  /\ mpc = "body"
  /\ mpc' = "body_raised" /\ merr' = "BodyError"
  /\ UNCHANGED <<usage, limit, bodyRuns, usage0, peak>>
  /\ UNCHANGED <<pc, err, filenames, selVars, cfgVars, drvVars, msVars>>

(* utils.py line 51-52: the body completed, the exit check *)
MemExit ==
  /\ mpc = "body"
  /\ IF OverLimit(usage, limit)
     THEN mpc' = "failed_exit" /\ merr' = "MemoryError"
     ELSE mpc' = "done" /\ merr' = merr
  /\ UNCHANGED <<usage, limit, bodyRuns, usage0, peak>>
  /\ UNCHANGED <<pc, err, filenames, selVars, cfgVars, drvVars, msVars>>

NextMem == MemEnter \/ MemBodyStep \/ MemBodyRaise \/ MemExit

(* ------------------------------ initial states ------------------------- *)
IdleDriver ==
  /\ i = 0 /\ moving_avg = Fin(0, 1) /\ throughput = Fin(0, 1)
  /\ rates = << >> /\ out = << >>
  /\ handles = << >> /\ dst = NoDst /\ x = 0 /\ y = 0 /\ var = ""
  /\ a = NoArray /\ k = 0 /\ reads = << >> /\ seconds = 0

IdleSel == listing = << >> /\ num_files = 5 /\ choices = << >> /\ nsel = 0

IdleMem ==
  /\ usage = 0 /\ limit = 0 /\ mpc = "idle" /\ bodyRuns = 0 /\ usage0 = 0
  /\ peak = 0 /\ merr = ""

SeqsUpTo(S, n) == UNION {[1..m -> S] : m \in 0..n}
DistinctSeqs(S, n) ==
  {s \in SeqsUpTo(S, n) : \A p, q \in 1..Len(s) : p # q => s[p] # s[q]}

(* The files of the driver runs: with and without the lat and the time     *)
(* dimension, with and without a candidate variable, with an empty and a   *)
(* non-empty time axis.                                                    *)
DriverFiles ==
  {f \in FileContents :
     /\ f.dims \in {{"lat", "lon", "time"}, {"lon", "time"}, {"lat", "lon"}}
     /\ f.vars \in {{"pr", "tas"}, {"tas"}}
     /\ f.dtype = "f4" /\ f.xlen = 1 /\ f.ylen = 1 /\ f.zlen \in 0..1}

(* line 164: the driver with an explicit file list *)
Init ==
  /\ pc = "loop" /\ err = ""
  /\ filenames \in SeqsUpTo(Paths, MaxFiles)
  /\ fs \in [Paths -> DriverFiles]
  /\ iface \in {"netcdf4", "hdf5"}
  /\ method \in {"direct", "iterative"}
  /\ optimize = FALSE
  /\ IdleDriver /\ IdleSel /\ IdleMem

(* one measure call on one file of any contents *)
InitMeasure ==
  /\ pc = "loop" /\ err = ""
  /\ filenames = <<"f1">>
  /\ \E c \in FileContents : fs = [p \in Paths |-> c]
  /\ iface \in {"netcdf4", "hdf5"}
  /\ method \in {"direct", "iterative"}
  /\ optimize \in BOOLEAN
  /\ IdleDriver /\ IdleSel /\ IdleMem

(* line 154: directory mode *)
InitSel ==
  /\ pc = "listdir" /\ err = ""
  /\ filenames = << >>
  /\ listing \in DistinctSeqs(EntryNames, MaxListing)
  /\ num_files \in 0..MaxNumFiles
  /\ choices = << >> /\ nsel = 0
  /\ fs = [p \in Paths |-> NoFile]
  /\ iface = "netcdf4" /\ method = "direct" /\ optimize = FALSE
  /\ IdleDriver /\ IdleMem

(* a with mem_limiter(limit) statement *)
InitMem ==
  /\ pc = "idle" /\ err = ""
  /\ filenames = << >>
  /\ fs = [p \in Paths |-> NoFile]
  /\ iface = "netcdf4" /\ method = "direct" /\ optimize = FALSE
  /\ IdleDriver /\ IdleSel
  /\ usage \in 0..MaxUsage /\ limit \in 0..MaxUsage
  /\ mpc = "enter" /\ bodyRuns = 0 /\ usage0 = 0 /\ peak = 0 /\ merr = ""

Next == NextDriver
Spec == Init /\ [][Next]_vars
SpecMeasure == InitMeasure /\ [][NextDriver]_vars
SpecSel == InitSel /\ [][NextSel]_vars
SpecMem == InitMem /\ [][NextMem]_vars

(* ======================= properties of the program ===================== *)
RECURSIVE Sum(_)
Sum(s) == IF s = << >> THEN Fin(0, 1) ELSE FAdd(Head(s), Sum(Tail(s)))
Mean(s) == FDivInt(Sum(s), Len(s))
AllFinite(s) == \A j \in 1..Len(s) : s[j].k = "fin"
InMeasure == dst # NoDst
HandleOf(d) == handles[d.h]

(* C1: after each file the running average is the arithmetic mean of the   *)
(* finite, non-negative samples seen so far, and the Average line prints    *)
(* that mean.                                                              *)
C1_RunningMeanIsArithmeticMean ==
  (rates # << >> /\ AllFinite(rates)) =>
     /\ moving_avg = Mean(rates)
     /\ pc = "done" => out[Len(out)] = AverageLine(Mean(rates))

(* C2: once the extraction is over and the rate is being computed, has     *)
(* been returned, or has failed on a zero elapsed time, the handle measure *)
(* opened is closed.                                                       *)
C2_ClosedBeforeRate ==
  /\ pc \in {"rate", "report"} => (InMeasure /\ HandleOf(dst) = "closed")
  /\ (pc = "crashed" /\ err = "ZeroDivisionError") =>
        (InMeasure /\ HandleOf(dst) = "closed")
  /\ Len(rates) <= Len(handles)
  /\ \A h \in 1..Len(rates) : handles[h] = "closed"

C2_Witness ==
  /\ pc = "crashed" /\ err = "ZeroDivisionError" /\ seconds = 0
  /\ method = "iterative" /\ iface = "hdf5" /\ HandleOf(dst) = "closed"

(* C3: a read is issued only on a file that has lat and lon and only for a *)
(* variable of the file among pr, tasmin, tasmax; without lat, lon or such *)
(* a variable measure fails before any read; a sole candidate is the one   *)
(* read.                                                                   *)
C3_ReadsOnlyCandidates ==
  InMeasure =>
    /\ \A j \in 1..Len(reads) :
         /\ {"lat", "lon"} \subseteq dst.file.dims
         /\ reads[j].var \in dst.file.vars \cap {"pr", "tasmin", "tasmax"}
         /\ \A v \in dst.file.vars \cap {"pr", "tasmin", "tasmax"} :
              dst.file.vars \cap {"pr", "tasmin", "tasmax"} = {v} => reads[j].var = v
    /\ (\/ ~({"lat", "lon"} \subseteq dst.file.dims)
        \/ dst.file.vars \cap {"pr", "tasmin", "tasmax"} = {}) =>
         /\ reads = << >>
         /\ pc \in {"assert", "midpoint", "choose", "crashed"}
         /\ rates = << >>

C3_Witness ==
  /\ pc = "report" /\ reads # << >> /\ dst.file.vars = {"pr", "tas"}
  /\ reads[1].var = "pr"

(* C7: the dimensions accessor reports exactly the names among lat, lon,   *)
(* time that the file has.                                                 *)
C7_DimensionsAreRecognizedOnes ==
  InMeasure => dimensions(dst) = dst.file.dims \cap {"lat", "lon", "time"}

(* C8: when measure fails between open and close, the handle it opened is  *)
(* still open, and stays so.                                               *)
C8_HandleLeaksOnFailure ==
  (pc = "crashed" /\ err \in {"AssertionError", "KeyError", "IndexError"}) =>
     /\ InMeasure /\ HandleOf(dst) = "open"
     /\ ~ENABLED NextDriver

C8_Witness ==
  /\ pc = "crashed" /\ err = "IndexError" /\ reads # << >>
  /\ HandleOf(dst) = "open"

(* C9: extract_iterative issues one single-element read per timestep, in   *)
(* increasing order, and returns a vector as long as the time dimension    *)
(* whose elements are the values at (i, y, x): the slice extract_direct    *)
(* returns.                                                                *)
C9_IterativeComposesTheSlice ==
  (method = "iterative" /\ pc \in {"iter", "exit", "close", "rate", "report"}) =>
     /\ reads = [j \in 1..k |-> [var |-> var, t |-> j - 1, y |-> y, x |-> x]]
     /\ Len(a.data) = dst.file.zlen
     /\ \A j \in 1..k : a.data[j] = GridValue(var, j - 1, y, x)
     /\ pc # "iter" =>
          /\ k = dst.file.zlen
          /\ a.data = extract_direct(dst, var, x, y).data

C9_Witness ==
  /\ method = "iterative" /\ pc = "exit" /\ dst.file.zlen = 2 /\ Len(reads) = 2
  /\ x = 1 /\ y = 1

(* C10: the byte count the rate is computed from is the one the direct     *)
(* method gives for the same file, variable and grid point.                *)
C10_SameByteCountForBothMethods ==
  pc = "rate" => nbytes(a) = nbytes(extract_direct(dst, var, x, y))

FileLinesUpTo(n) ==
  /\ Len(out) >= n
  /\ \A j \in 1..n : out[j].kind = "file" /\ out[j].name = filenames[j]

(* C6: a failing measurement ends the run there: no later file is opened,  *)
(* the failed one is not retried, nothing more is printed; a run without   *)
(* failure prints one line per file in list order, then one Average line.  *)
C6_FailureEndsTheRun ==
  /\ Len(handles) <= i + 1 /\ Len(handles) >= i
  /\ pc = "crashed" =>
       /\ i < Len(filenames) /\ Len(handles) = i + 1
       /\ Len(out) = i /\ FileLinesUpTo(i)
       /\ ~ENABLED Next
  /\ pc = "done" =>
       /\ err = "" /\ Len(out) = Len(filenames) + 1
       /\ Len(handles) = Len(filenames)
       /\ FileLinesUpTo(Len(filenames))
       /\ out[Len(out)].kind = "Average"
       /\ ~ENABLED Next
  /\ pc \notin {"crashed", "done"} => (Len(out) = i /\ FileLinesUpTo(i))

C6_Witness ==
  /\ pc = "crashed" /\ i = 1 /\ Len(filenames) = 3 /\ Len(out) = 1
  /\ err = "AssertionError"

(* C5: the selection loop ends with num_files distinct paths made from      *)
(* entries of the listing, and no chosen entry stays in the pool.          *)
C5_SampleWithoutReplacement ==
  /\ num_files <= Len(listing) => pc # "crashed"
  /\ pc \in {"select", "selected"} =>
     /\ Len(filenames) = nsel
     /\ \A p, q \in 1..Len(filenames) : p # q => filenames[p] # filenames[q]
     /\ \A p \in 1..Len(filenames) :
          /\ \E e \in Range(listing) : filenames[p] = <<Directory, e>>
          /\ \A c \in 1..Len(choices) : filenames[p] # <<Directory, choices[c]>>
     /\ Len(choices) = Len(listing) - nsel
     /\ pc = "selected" => Len(filenames) = num_files

C5_Witness ==
  pc = "selected" /\ num_files = 3 /\ Len(listing) = 3 /\ Len(filenames) = 3

(* C4: mem_limiter fails at entry, without running the body, when usage is *)
(* over the ceiling; otherwise the body runs once, and after a body that   *)
(* completes the guard fails exactly when usage is then over the ceiling.  *)
C4_GuardChecksEntryAndExit ==
  /\ bodyRuns <= 1
  /\ mpc = "failed_entry" => (usage0 > limit /\ bodyRuns = 0 /\ merr = "MemoryError")
  /\ mpc \in {"body", "body_raised", "done", "failed_exit"} =>
       (usage0 <= limit /\ bodyRuns = 1)
  /\ mpc = "failed_exit" => (usage > limit /\ merr = "MemoryError")
  /\ mpc = "done" => (usage <= limit /\ merr = "")

C4_Witness ==
  mpc = "done" /\ peak > limit /\ usage <= limit /\ bodyRuns = 1

====
